---- MODULE Spec2Model ----
(***************************************************************************)
(* A model of the schema combinator engine of deno-zod                     *)
(* (src/unnamed/part_001): the Schema base contract (parse, safeParse,     *)
(* transform, optional/nullable/nullish), the primitive constructors and   *)
(* the composite constructors (object, strictObject, array, tuple, record, *)
(* union, lazy) with the two-pass (fast / diagnostic) validation protocol. *)
(*                                                                         *)
(* JavaScript values are encoded as records of one uniform shape           *)
(*   [t, s, ref, kids]                                                     *)
(* t    the runtime kind: undefined, null, string, number, boolean,        *)
(*      bigint, function, array, object (plain object), date (a Date)      *)
(* s    String(value) of a scalar                                          *)
(* ref  the identity of an array or object, abstracted to the allocation   *)
(*      epoch: 0 for a node of the caller's input, the call's epoch for a  *)
(*      node allocated by a validation call                                *)
(* kids the own enumerable properties in property order, <<[k, v]>>; the   *)
(*      elements of an array in index order (k is "")                      *)
(***************************************************************************)
EXTENDS Integers, Sequences, FiniteSets, TLC

VARIABLES schema, input, pc, sp, pr, rp, contexts, log

vars == <<schema, input, pc, sp, pr, rp, contexts, log>>

----------------------------------------------------------------------------
(* Values *)

Val(t, s, ref, kids) == [t |-> t, s |-> s, ref |-> ref, kids |-> kids]

Undefined == Val("undefined", "undefined", 0, <<>>)
Null == Val("null", "null", 0, <<>>)
Str(s) == Val("string", s, 0, <<>>)
Num(s) == Val("number", s, 0, <<>>)
Bool(s) == Val("boolean", s, 0, <<>>)
Big(s) == Val("bigint", s, 0, <<>>)
\* a function object, such as the Object constructor every plain object inherits
Fun(s) == Val("function", s, 0, <<>>)
DateOf(ref) == Val("date", "date", ref, <<>>)
Arr(ref, items) == Val("array", "", ref, [i \in 1..Len(items) |-> [k |-> "", v |-> items[i]]])
Obj(ref, entries) == Val("object", "", ref, entries)
KV(k, v) == [k |-> k, v |-> v]

\* typeof value
TypeOf(v) == IF v.t \in {"null", "array", "object", "date"} THEN "object" ELSE v.t

\* Array.isArray(value)
IsArray(v) == v.t = "array"

getType(v) ==
  IF v.t = "undefined" THEN "undefined"
  ELSE IF v.t = "null" THEN "null"
  ELSE IF IsArray(v) THEN "array"
  ELSE TypeOf(v)

\* value instanceof ctor, for the constructors Date, Object and Array
\* the value inspection of the error messages: undefined, null, array and
\* object as those words, a scalar as its type and its rendering
inspectValue(v) ==
  CASE v.t \in {"undefined", "null", "array"} -> v.t
    [] v.t \in {"object", "date"} -> "object"
    [] v.t = "string" -> "string \"" \o v.s \o "\""
    [] OTHER -> v.t \o " " \o v.s

InstanceOf(v, ctor) ==
  CASE ctor = "Date" -> v.t = "date"
    [] ctor = "Array" -> v.t = "array"
    [] ctor = "Object" -> v.t \in {"object", "array", "date", "function"}
    [] OTHER -> FALSE

\* a === b where b is a scalar (string, number, boolean, null, undefined)
StrictEquals(a, b) == a.t = b.t /\ a.s = b.s /\ a.kids = <<>> /\ a.t \notin {"date", "function"}

\* the property names every plain object inherits from Object.prototype
ObjectPrototypeKeys == {"constructor", "toString"}

OwnKeys(v) == [i \in 1..Len(v.kids) |-> v.kids[i].k]

HasOwn(v, key) == \E i \in 1..Len(v.kids) : v.kids[i].k = key

\* object[key]: the own property, else the inherited one, else undefined
Get(object, key) ==
  IF HasOwn(object, key)
  THEN (CHOOSE e \in {object.kids[i] : i \in 1..Len(object.kids)} : e.k = key).v
  ELSE IF key \in ObjectPrototypeKeys THEN Fun(key)
  ELSE Undefined

----------------------------------------------------------------------------
(* Paths and errors *)

PKey(k) == [n |-> -1, s |-> k]
PIdx(i) == [n |-> i, s |-> ""]

\* String(element) of a path element
PathElemString(e) == IF e.n >= 0 THEN ToString(e.n) ELSE e.s

RECURSIVE Join(_, _)
\* Array.prototype.join over strings
Join(strs, sep) ==
  IF Len(strs) = 0 THEN ""
  ELSE IF Len(strs) = 1 THEN strs[1]
  ELSE strs[1] \o sep \o Join(Tail(strs), sep)

Err(path, message) == [path |-> path, message |-> message]

\* Context: has = FALSE models an absent (undefined) context
NoCtx == [has |-> FALSE, path |-> <<>>]
Ctx(path) == [has |-> TRUE, path |-> path]

\* the per-call mutable state: the shared errors list of the call's contexts,
\* the log of the callbacks applied (transform callbacks and lazy thunks), and
\* the epoch that tags what the call allocates
NewState(epoch) ==
  [errors |-> <<>>, calls |-> <<>>, epoch |-> epoch, rewalks |-> 0, depth |-> 0, maxDepth |-> 0]

\* a composite starts its diagnostic pass
Rewalk(st) == [st EXCEPT !.rewalks = @ + 1]

\* a validation function is entered and left: the calls in progress and the
\* longest chain of them so far
Enter(st) ==
  [st EXCEPT !.depth = @ + 1, !.maxDepth = IF st.depth + 1 > @ THEN st.depth + 1 ELSE @]
\* mutant: a validation function that returned still counts as in progress
LeaveNever(st) == st
Leave(st) == [st EXCEPT !.depth = @ - 1]

\* if (context !== undefined) context.errors.push({ path: context.path, message })
Push(ctx, message, st) ==
  IF ctx.has THEN [st EXCEPT !.errors = Append(@, Err(ctx.path, message))] ELSE st

Logged(kind, name, pos, ctx, st) ==
  [st EXCEPT !.calls = Append(@, [kind |-> kind, name |-> name, pos |-> pos, diag |-> ctx.has])]

\* Result<T>, extended with a thrown exception and the state after the call
Ok(data, st) == [out |-> "ok", data |-> data, exc |-> "", st |-> st]
Fail(st) == [out |-> "fail", data |-> Undefined, exc |-> "", st |-> st]
Throw(message, st) == [out |-> "throw", data |-> Undefined, exc |-> message, st |-> st]

----------------------------------------------------------------------------
(* Schemas.  A schema is a record of one uniform shape                     *)
(*   [kind, lit, name, strict, subs]                                       *)
(* kind   which constructor's validation function the schema wraps         *)
(* lit    the literal of a literal schema                                  *)
(* name   the constructor of an instanceof schema, the callback of a       *)
(*        transform schema, the thunk of a lazy schema                     *)
(* strict the strict flag of an ObjectSchema                               *)
(* subs   the child schemas, <<[k, v]>>: the shape of an object in         *)
(*        Object.entries order, the items of a tuple, the branches of a    *)
(*        union, the single child of array / record / transform            *)

Sch(kind, lit, name, strict, subs) ==
  [kind |-> kind, lit |-> lit, name |-> name, strict |-> strict, subs |-> subs]

Children(schemas) == [i \in 1..Len(schemas) |-> KV("", schemas[i])]

createStringSchema == Sch("string", Undefined, "", FALSE, <<>>)
createNumberSchema == Sch("number", Undefined, "", FALSE, <<>>)
createBooleanSchema == Sch("boolean", Undefined, "", FALSE, <<>>)
createBigIntSchema == Sch("bigint", Undefined, "", FALSE, <<>>)
createNullSchema == Sch("null", Undefined, "", FALSE, <<>>)
createUndefinedSchema == Sch("undefined", Undefined, "", FALSE, <<>>)
createUnknownSchema == Sch("unknown", Undefined, "", FALSE, <<>>)
createInstanceofSchema(ctor) == Sch("instanceof", Undefined, ctor, FALSE, <<>>)
createDateSchema == createInstanceofSchema("Date")
createLazySchema(fn) == Sch("lazy", Undefined, fn, FALSE, <<>>)
createUnionSchema(schemas) == Sch("union", Undefined, "", FALSE, Children(schemas))
createSingleLiteralSchema(literal) == Sch("literal", literal, "", FALSE, <<>>)
\* literal.map((item) => createLiteralSchema(item)) wrapped in a union
createLiteralSetSchema(literals) ==
  createUnionSchema([i \in 1..Len(literals) |-> createSingleLiteralSchema(literals[i])])
createDiscriminatedUnionSchema(discriminatorKey, branches) ==
  Sch("discriminatedUnion", Undefined, discriminatorKey, FALSE, Children(branches))
createArraySchema(item) == Sch("array", Undefined, "", FALSE, Children(<<item>>))
createRecordSchema(item) == Sch("record", Undefined, "", FALSE, Children(<<item>>))
createTupleSchema(items) == Sch("tuple", Undefined, "", FALSE, Children(items))
createObjectSchema(shape) == Sch("object", Undefined, "", FALSE, shape)
createStrictObjectSchema(shape) == Sch("object", Undefined, "", TRUE, shape)
\* mutant: the wrapped schema comes before the undefined schema
createOptionalSchemaInnerFirst(s) == createUnionSchema(<<s, createUndefinedSchema>>)
createOptionalSchema(s) == createUnionSchema(<<createUndefinedSchema, s>>)
createNullableSchema(s) == createUnionSchema(<<createNullSchema, s>>)
createNullishSchema(s) == createUnionSchema(<<createNullSchema, createUndefinedSchema, s>>)
transform(s, fn) == Sch("transform", Undefined, fn, FALSE, Children(<<s>>))

\* the schemas the thunks of the lazy schemas return: a self-referential tree
\* { name: string, children: array(lazy(() => Tree)) } and a plain string
Thunk(fn) ==
  IF fn = "Tree"
  THEN createObjectSchema(<<KV("name", createStringSchema),
                            KV("children", createArraySchema(createLazySchema("Tree")))>>)
  ELSE createStringSchema

\* the callbacks given to transform: what one returns or throws on a value
\*   bang        (v) => String(v) + "!"
\*   ident       (v) => v
\*   throwError  (v) => { throw new Error("boom") }
\*   throwString (v) => { throw "oops" }
ApplyFn(fn, v) ==
  CASE fn = "bang" -> [threw |-> FALSE, isError |-> FALSE, s |-> "", v |-> Str(v.s \o "!")]
    [] fn = "ident" -> [threw |-> FALSE, isError |-> FALSE, s |-> "", v |-> v]
    [] fn = "throwError" -> [threw |-> TRUE, isError |-> TRUE, s |-> "boom", v |-> Undefined]
    [] OTHER -> [threw |-> TRUE, isError |-> FALSE, s |-> "oops", v |-> Undefined]

----------------------------------------------------------------------------
(* The validation functions.  Each takes the value, the optional context,  *)
(* the position of the value in the input (kept for the callback log only) *)
(* and the call's state, and returns a Result with the state after it.     *)

RECURSIVE internalSafeParse(_, _, _, _, _)
RECURSIVE ObjectFastFields(_, _, _, _, _, _)
RECURSIVE ObjectDiagFields(_, _, _, _, _, _)
RECURSIVE ArrayFastItems(_, _, _, _, _, _)
RECURSIVE ArrayDiagItems(_, _, _, _, _, _)
RECURSIVE RecordFastEntries(_, _, _, _, _, _)
RECURSIVE RecordDiagEntries(_, _, _, _, _, _)
RECURSIVE TupleFastItems(_, _, _, _, _, _)
RECURSIVE TupleDiagItems(_, _, _, _, _, _)
RECURSIVE UnionFastBranches(_, _, _, _, _)
RECURSIVE UnionDiagBranches(_, _, _, _, _, _)
RECURSIVE ObjectDiagFieldsFirstOnly(_, _, _, _, _, _)
RECURSIVE ObjectDiagFieldsNoKey(_, _, _, _, _, _)
RECURSIVE ArrayDiagItemsOneBased(_, _, _, _, _, _)
RECURSIVE ArrayFastItemsInPlace(_, _, _, _, _, _)
RECURSIVE ArrayDiagItemsFirstOnly(_, _, _, _, _, _)
RECURSIVE UnionFastBranchesLastWins(_, _, _, _, _)
RECURSIVE UnionDiagBranchesIndexed(_, _, _, _, _, _)
RECURSIVE ObjectFastFieldsNoStop(_, _, _, _, _, _)
RECURSIVE UnionFastBranchesWithContext(_, _, _, _, _)

\* mutant: the number schema coerces a numeric string
TypeTagSchemaCoercing(kind, value, ctx, st) ==
  IF kind = "number" /\ value.t = "string" /\ value.s = "1" THEN Ok(Num(value.s), st)
  ELSE IF TypeOf(value) # kind
  THEN Fail(Push(ctx, "Expected " \o kind \o ", got " \o getType(value), st))
  ELSE Ok(value, st)

\* a primitive's type test: string, number, boolean, bigint
TypeTagSchema(kind, value, ctx, st) ==
  IF TypeOf(value) # kind
  THEN Fail(Push(ctx, "Expected " \o kind \o ", got " \o getType(value), st))
  ELSE Ok(value, st)

NullSchema(value, ctx, st) ==
  IF value.t # "null"
  THEN Fail(Push(ctx, "Expected null, got " \o getType(value), st))
  ELSE Ok(value, st)

UndefinedSchema(value, ctx, st) ==
  IF value.t # "undefined"
  THEN Fail(Push(ctx, "Expected undefined, got " \o getType(value), st))
  ELSE Ok(value, st)

LiteralSchema(literal, value, ctx, st) ==
  IF ~StrictEquals(value, literal)
  THEN Fail(Push(ctx, "Expected literal " \o literal.s \o ", got " \o getType(value), st))
  ELSE Ok(literal, st)

InstanceofSchema(ctor, value, ctx, st) ==
  IF ~InstanceOf(value, ctor)
  THEN Fail(Push(ctx, "Expected instance of " \o ctor \o ", got " \o getType(value), st))
  ELSE Ok(value, st)

UnknownSchema(value, st) == Ok(value, st)

\* key in schema: own or inherited
KeyIn(key, shape) == (\E i \in 1..Len(shape) : shape[i].k = key) \/ key \in ObjectPrototypeKeys

\* mutant: the fast pass goes on after a failing field and fails at the end
ObjectFastFieldsNoStop(shape, object, i, parsedObject, pos, st) ==
  IF i > Len(shape) THEN Ok(Obj(st.epoch, parsedObject), st)
  ELSE LET key == shape[i].k
           result == internalSafeParse(shape[i].v, Get(object, key), NoCtx,
                                       Append(pos, PKey(key)), st)
           rest == ObjectFastFieldsNoStop(shape, object, i + 1,
                                          Append(parsedObject, KV(key, result.data)), pos,
                                          result.st)
       IN IF result.out = "throw" THEN result
          ELSE IF result.out = "fail" /\ rest.out # "throw" THEN Fail(rest.st)
          ELSE rest

\* the fast pass over the declared fields
ObjectFastFields(shape, object, i, parsedObject, pos, st) ==
  IF i > Len(shape) THEN Ok(Obj(st.epoch, parsedObject), st)
  ELSE LET key == shape[i].k
           result == internalSafeParse(shape[i].v, Get(object, key), NoCtx,
                                       Append(pos, PKey(key)), st)
       IN IF result.out # "ok" THEN result
          ELSE ObjectFastFields(shape, object, i + 1,
                                Append(parsedObject, KV(key, result.data)), pos, result.st)

\* the strict test of the fast pass
StrictRejects(shape, object) ==
  \E i \in 1..Len(object.kids) : ~KeyIn(object.kids[i].k, shape)

ObjectFast(shape, strict, object, pos, st) ==
  LET result == ObjectFastFields(shape, object, 1, <<>>, pos, st)
  IN IF result.out = "ok" /\ strict /\ StrictRejects(shape, object)
     THEN Fail(result.st)
     ELSE result

\* mutant: the diagnostic pass stops at the first failing field
ObjectDiagFieldsFirstOnly(shape, object, i, ctx, pos, st) ==
  IF i > Len(shape) THEN Fail(st)
  ELSE LET key == shape[i].k
           result == internalSafeParse(shape[i].v, Get(object, key),
                                       Ctx(Append(ctx.path, PKey(key))),
                                       Append(pos, PKey(key)), st)
       IN IF result.out # "ok" THEN result
          ELSE ObjectDiagFieldsFirstOnly(shape, object, i + 1, ctx, pos, result.st)

\* mutant: the diagnostic pass hands the fields the object's own path
ObjectDiagFieldsNoKey(shape, object, i, ctx, pos, st) ==
  IF i > Len(shape) THEN Fail(st)
  ELSE LET key == shape[i].k
           result == internalSafeParse(shape[i].v, Get(object, key), Ctx(ctx.path),
                                       Append(pos, PKey(key)), st)
       IN IF result.out = "throw" THEN result
          ELSE ObjectDiagFieldsNoKey(shape, object, i + 1, ctx, pos, result.st)

\* the diagnostic pass over the declared fields
ObjectDiagFields(shape, object, i, ctx, pos, st) ==
  IF i > Len(shape) THEN Fail(st)
  ELSE LET key == shape[i].k
           result == internalSafeParse(shape[i].v, Get(object, key),
                                       Ctx(Append(ctx.path, PKey(key))),
                                       Append(pos, PKey(key)), st)
       IN IF result.out = "throw" THEN result
          ELSE ObjectDiagFields(shape, object, i + 1, ctx, pos, result.st)

UnrecognizedKeys(shape, object) ==
  SelectSeq(OwnKeys(object), LAMBDA key : ~KeyIn(key, shape))

ObjectDiagStrict(shape, object, ctx, st) ==
  LET unrecognizedKeys == UnrecognizedKeys(shape, object)
  IN IF Len(unrecognizedKeys) > 0
     THEN Push(ctx, "Unrecognized keys: " \o Join(unrecognizedKeys, ", "), st)
     ELSE st

ObjectDiag(shape, strict, object, ctx, pos, st) ==
  LET walked == ObjectDiagFields(shape, object, 1, ctx, pos, st)
  IN IF walked.out = "throw" THEN walked
     ELSE IF strict THEN Fail(ObjectDiagStrict(shape, object, ctx, walked.st))
     ELSE walked

ObjectSchema(shape, strict, value, ctx, pos, st) ==
  IF TypeOf(value) # "object" \/ value.t = "null" \/ IsArray(value)
  THEN Fail(Push(ctx, "Expected object, got " \o getType(value), st))
  ELSE LET result == ObjectFast(shape, strict, value, pos, st)
       IN IF result.out # "fail" THEN result
          ELSE IF ctx.has THEN ObjectDiag(shape, strict, value, ctx, pos, Rewalk(result.st))
          ELSE Fail(result.st)

\* mutant: the fast pass validates the items and returns the input array itself
ArrayFastItemsInPlace(item, value, i, parsedItems, pos, st) ==
  IF i > Len(value.kids) THEN Ok(value, st)
  ELSE LET result == internalSafeParse(item, value.kids[i].v, NoCtx,
                                       Append(pos, PIdx(i - 1)), st)
       IN IF result.out # "ok" THEN result
          ELSE ArrayFastItemsInPlace(item, value, i + 1, parsedItems, pos, result.st)

\* the fast pass over the items of an array
ArrayFastItems(item, value, i, parsedItems, pos, st) ==
  IF i > Len(value.kids) THEN Ok(Arr(st.epoch, parsedItems), st)
  ELSE LET result == internalSafeParse(item, value.kids[i].v, NoCtx,
                                       Append(pos, PIdx(i - 1)), st)
       IN IF result.out # "ok" THEN result
          ELSE ArrayFastItems(item, value, i + 1, Append(parsedItems, result.data),
                              pos, result.st)

\* mutant: the diagnostic pass counts the items from 1
ArrayDiagItemsOneBased(item, value, i, ctx, pos, st) ==
  IF i > Len(value.kids) THEN Fail(st)
  ELSE LET result == internalSafeParse(item, value.kids[i].v,
                                       Ctx(Append(ctx.path, PIdx(i))),
                                       Append(pos, PIdx(i - 1)), st)
       IN IF result.out = "throw" THEN result
          ELSE ArrayDiagItemsOneBased(item, value, i + 1, ctx, pos, result.st)

\* mutant: the diagnostic pass stops at the first item that records an error
ArrayDiagItemsFirstOnly(item, value, i, ctx, pos, st) ==
  IF i > Len(value.kids) THEN Fail(st)
  ELSE LET result == internalSafeParse(item, value.kids[i].v,
                                       Ctx(Append(ctx.path, PIdx(i - 1))),
                                       Append(pos, PIdx(i - 1)), st)
       IN IF result.out # "ok" THEN result
          ELSE ArrayDiagItemsFirstOnly(item, value, i + 1, ctx, pos, result.st)

\* the diagnostic pass over the items of an array
ArrayDiagItems(item, value, i, ctx, pos, st) ==
  IF i > Len(value.kids) THEN Fail(st)
  ELSE LET result == internalSafeParse(item, value.kids[i].v,
                                       Ctx(Append(ctx.path, PIdx(i - 1))),
                                       Append(pos, PIdx(i - 1)), st)
       IN IF result.out = "throw" THEN result
          ELSE ArrayDiagItems(item, value, i + 1, ctx, pos, result.st)

ArraySchema(item, value, ctx, pos, st) ==
  IF ~IsArray(value)
  THEN Fail(Push(ctx, "Expected array, got " \o getType(value), st))
  ELSE LET result == ArrayFastItems(item, value, 1, <<>>, pos, st)
       IN IF result.out # "fail" THEN result
          ELSE IF ctx.has THEN ArrayDiagItems(item, value, 1, ctx, pos, Rewalk(result.st))
          ELSE Fail(result.st)

\* the fast pass over the item schemas of a tuple
TupleFastItems(items, value, i, parsedItems, pos, st) ==
  IF i > Len(items) THEN Ok(Arr(st.epoch, parsedItems), st)
  ELSE LET result == internalSafeParse(items[i].v, value.kids[i].v, NoCtx,
                                       Append(pos, PIdx(i - 1)), st)
       IN IF result.out # "ok" THEN result
          ELSE TupleFastItems(items, value, i + 1, Append(parsedItems, result.data),
                              pos, result.st)

\* the diagnostic pass over the item schemas of a tuple
TupleDiagItems(items, value, i, ctx, pos, st) ==
  IF i > Len(items) THEN Fail(st)
  ELSE LET result == internalSafeParse(items[i].v, value.kids[i].v,
                                       Ctx(Append(ctx.path, PIdx(i - 1))),
                                       Append(pos, PIdx(i - 1)), st)
       IN IF result.out = "throw" THEN result
          ELSE TupleDiagItems(items, value, i + 1, ctx, pos, result.st)

\* mutant: the length error names the two lengths the other way round
TupleSchemaSwappedLengths(items, value, ctx, pos, st) ==
  IF ~IsArray(value)
  THEN Fail(Push(ctx, "Expected array, got " \o getType(value), st))
  ELSE IF Len(value.kids) # Len(items)
  THEN Fail(Push(ctx, "Expected array of length " \o ToString(Len(value.kids))
                        \o ", got array of length " \o ToString(Len(items)), st))
  ELSE LET result == TupleFastItems(items, value, 1, <<>>, pos, st)
       IN IF result.out # "fail" THEN result
          ELSE IF ctx.has THEN TupleDiagItems(items, value, 1, ctx, pos, Rewalk(result.st))
          ELSE Fail(result.st)

TupleSchema(items, value, ctx, pos, st) ==
  IF ~IsArray(value)
  THEN Fail(Push(ctx, "Expected array, got " \o getType(value), st))
  ELSE IF Len(value.kids) # Len(items)
  THEN Fail(Push(ctx, "Expected array of length " \o ToString(Len(items))
                        \o ", got array of length " \o ToString(Len(value.kids)), st))
  ELSE LET result == TupleFastItems(items, value, 1, <<>>, pos, st)
       IN IF result.out # "fail" THEN result
          ELSE IF ctx.has THEN TupleDiagItems(items, value, 1, ctx, pos, Rewalk(result.st))
          ELSE Fail(result.st)

\* the fast pass over Object.entries(record)
RecordFastEntries(item, record, i, parsedObject, pos, st) ==
  IF i > Len(record.kids) THEN Ok(Obj(st.epoch, parsedObject), st)
  ELSE LET key == record.kids[i].k
           result == internalSafeParse(item, record.kids[i].v, NoCtx,
                                       Append(pos, PKey(key)), st)
       IN IF result.out # "ok" THEN result
          ELSE RecordFastEntries(item, record, i + 1,
                                 Append(parsedObject, KV(key, result.data)), pos, result.st)

\* the diagnostic pass over Object.entries(record)
RecordDiagEntries(item, record, i, ctx, pos, st) ==
  IF i > Len(record.kids) THEN Fail(st)
  ELSE LET key == record.kids[i].k
           result == internalSafeParse(item, record.kids[i].v,
                                       Ctx(Append(ctx.path, PKey(key))),
                                       Append(pos, PKey(key)), st)
       IN IF result.out = "throw" THEN result
          ELSE RecordDiagEntries(item, record, i + 1, ctx, pos, result.st)

\* what the record validator does with a value that is no plain object
RecordNonObject(record, ctx, st) == Throw("Expected object, got " \o getType(record), st)

RecordSchema(item, record, ctx, pos, st) ==
  IF TypeOf(record) # "object" \/ record.t = "null" \/ IsArray(record)
  THEN RecordNonObject(record, ctx, st)
  ELSE LET result == RecordFastEntries(item, record, 1, <<>>, pos, st)
       IN IF result.out # "fail" THEN result
          ELSE IF ctx.has THEN RecordDiagEntries(item, record, 1, ctx, pos, Rewalk(result.st))
          ELSE Fail(result.st)

\* mutant: the fast pass goes on after a success and keeps the last one
UnionFastBranchesLastWins(schemas, value, i, pos, st) ==
  IF i > Len(schemas) THEN Fail(st)
  ELSE LET result == internalSafeParse(schemas[i].v, value, NoCtx, pos, st)
           rest == UnionFastBranchesLastWins(schemas, value, i + 1, pos, result.st)
       IN IF result.out = "throw" THEN result
          ELSE IF result.out = "fail" \/ rest.out = "ok" THEN rest
          ELSE [result EXCEPT !.st = rest.st]

\* mutant: the fast pass gives the branches a context
UnionFastBranchesWithContext(schemas, value, i, pos, st) ==
  IF i > Len(schemas) THEN Fail(st)
  ELSE LET result == internalSafeParse(schemas[i].v, value, Ctx(<<>>), pos, st)
       IN IF result.out # "fail" THEN result
          ELSE UnionFastBranchesWithContext(schemas, value, i + 1, pos, result.st)

\* the fast pass over the branches: the first success, else a failure
UnionFastBranches(schemas, value, i, pos, st) ==
  IF i > Len(schemas) THEN Fail(st)
  ELSE LET result == internalSafeParse(schemas[i].v, value, NoCtx, pos, st)
       IN IF result.out # "fail" THEN result
          ELSE UnionFastBranches(schemas, value, i + 1, pos, result.st)

\* mutant: the diagnostic pass gives each branch a path ending in its index
UnionDiagBranchesIndexed(schemas, value, i, ctx, pos, st) ==
  IF i > Len(schemas) THEN Fail(st)
  ELSE LET result == internalSafeParse(schemas[i].v, value,
                                       Ctx(Append(ctx.path, PIdx(i - 1))), pos, st)
       IN IF result.out = "throw" THEN result
          ELSE UnionDiagBranchesIndexed(schemas, value, i + 1, ctx, pos, result.st)

\* the diagnostic pass: every branch, with the union's own context
UnionDiagBranches(schemas, value, i, ctx, pos, st) ==
  IF i > Len(schemas) THEN Fail(st)
  ELSE LET result == internalSafeParse(schemas[i].v, value, ctx, pos, st)
       IN IF result.out = "throw" THEN result
          ELSE UnionDiagBranches(schemas, value, i + 1, ctx, pos, result.st)

UnionSchema(schemas, value, ctx, pos, st) ==
  LET result == UnionFastBranches(schemas, value, 1, pos, st)
  IN IF result.out # "fail" THEN result
     ELSE IF ctx.has THEN UnionDiagBranches(schemas, value, 1, ctx, pos, Rewalk(result.st))
     ELSE Fail(result.st)

\* mutant: the produced schema is given no context
LazySchemaNoContext(fn, value, ctx, pos, st) ==
  internalSafeParse(Thunk(fn), value, NoCtx, pos, Logged("thunk", fn, pos, ctx, st))

\* mutant: the produced schema is given a context at the root path
LazySchemaRootPath(fn, value, ctx, pos, st) ==
  internalSafeParse(Thunk(fn), value, IF ctx.has THEN Ctx(<<>>) ELSE NoCtx, pos,
                    Logged("thunk", fn, pos, ctx, st))

\* the branch is an object schema that declares the literal value for the key
DeclaresDiscriminator(branch, discriminatorKey, value) ==
  /\ branch.kind = "object"
  /\ \E i \in 1..Len(branch.subs) :
       /\ branch.subs[i].k = discriminatorKey
       /\ branch.subs[i].v.kind = "literal"
       /\ StrictEquals(value, branch.subs[i].v.lit)

MatchingBranches(discriminatorKey, branches, value) ==
  {i \in 1..Len(branches) : DeclaresDiscriminator(branches[i].v, discriminatorKey, value)}

\* mutant: of several branches that declare the value the first is taken
DiscriminatedUnionSchemaFirstMatch(discriminatorKey, branches, value, ctx, pos, st) ==
  IF TypeOf(value) # "object" \/ value.t = "null" \/ IsArray(value)
  THEN Fail(Push(ctx, "Expected object, got " \o getType(value), st))
  ELSE LET discriminator == Get(value, discriminatorKey)
           matching == MatchingBranches(discriminatorKey, branches, discriminator)
           at == Ctx(Append(ctx.path, PKey(discriminatorKey)))
       IN IF matching = {}
          THEN Fail(IF ctx.has
                    THEN Push(at, "Invalid discriminator value " \o inspectValue(discriminator), st)
                    ELSE st)
          ELSE internalSafeParse(branches[CHOOSE i \in matching : \A j \in matching : i <= j].v,
                                 value, ctx, pos, st)

\* the discriminated union: no branch, several branches or the one branch
\* that declares the discriminator value of the input
DiscriminatedUnionSchema(discriminatorKey, branches, value, ctx, pos, st) ==
  IF TypeOf(value) # "object" \/ value.t = "null" \/ IsArray(value)
  THEN Fail(Push(ctx, "Expected object, got " \o getType(value), st))
  ELSE LET discriminator == Get(value, discriminatorKey)
           matching == MatchingBranches(discriminatorKey, branches, discriminator)
           at == Ctx(Append(ctx.path, PKey(discriminatorKey)))
       IN IF matching = {}
          THEN Fail(IF ctx.has
                    THEN Push(at, "Invalid discriminator value " \o inspectValue(discriminator), st)
                    ELSE st)
          ELSE IF Cardinality(matching) > 1
          THEN Fail(IF ctx.has
                    THEN Push(at, "Ambiguous discriminator value " \o inspectValue(discriminator), st)
                    ELSE st)
          ELSE internalSafeParse(branches[CHOOSE i \in matching : TRUE].v, value, ctx, pos, st)

\* fn().internalSafeParse(value, context)
LazySchema(fn, value, ctx, pos, st) ==
  internalSafeParse(Thunk(fn), value, ctx, pos, Logged("thunk", fn, pos, ctx, st))

\* mutant: the catch block records nothing
TransformCatchSilent(message, ctx, st) == Fail(st)

\* the catch block of transform
TransformCatch(message, ctx, st) == Fail(Push(ctx, message, st))

\* mutant: the callback is applied twice
TransformSchemaAppliesTwice(inner, fn, value, ctx, pos, st) ==
  LET result == internalSafeParse(inner, value, ctx, pos, st)
  IN IF result.out = "throw" THEN TransformCatch(result.exc, ctx, result.st)
     ELSE IF result.out = "fail" THEN result
     ELSE LET applied == ApplyFn(fn, result.data)
              after == Logged("transform", fn, pos, ctx,
                              Logged("transform", fn, pos, ctx, result.st))
          IN IF applied.threw
             THEN TransformCatch(applied.s, ctx, after)
             ELSE Ok(applied.v, after)

\* mutant: what the inner schema throws is not caught
TransformSchemaUncaught(inner, fn, value, ctx, pos, st) ==
  LET result == internalSafeParse(inner, value, ctx, pos, st)
  IN IF result.out # "ok" THEN result
     ELSE LET applied == ApplyFn(fn, result.data)
              after == Logged("transform", fn, pos, ctx, result.st)
          IN IF applied.threw
             THEN TransformCatch(applied.s, ctx, after)
             ELSE Ok(applied.v, after)

TransformSchema(inner, fn, value, ctx, pos, st) ==
  LET result == internalSafeParse(inner, value, ctx, pos, st)
  IN IF result.out = "throw" THEN TransformCatch(result.exc, ctx, result.st)
     ELSE IF result.out = "fail" THEN result
     ELSE LET applied == ApplyFn(fn, result.data)
              after == Logged("transform", fn, pos, ctx, result.st)
          IN IF applied.threw
             THEN TransformCatch(applied.s, ctx, after)
             ELSE Ok(applied.v, after)

\* Schema.internalSafeParse: this.safeParseFn(value, context)
internalSafeParse(s, value, ctx, pos, st) ==
  [(CASE s.kind \in {"string", "number", "boolean", "bigint"} -> TypeTagSchema(s.kind, value, ctx, Enter(st))
      [] s.kind = "null" -> NullSchema(value, ctx, Enter(st))
      [] s.kind = "undefined" -> UndefinedSchema(value, ctx, Enter(st))
      [] s.kind = "literal" -> LiteralSchema(s.lit, value, ctx, Enter(st))
      [] s.kind = "instanceof" -> InstanceofSchema(s.name, value, ctx, Enter(st))
      [] s.kind = "unknown" -> UnknownSchema(value, Enter(st))
      [] s.kind = "object" -> ObjectSchema(s.subs, s.strict, value, ctx, pos, Enter(st))
      [] s.kind = "array" -> ArraySchema(s.subs[1].v, value, ctx, pos, Enter(st))
      [] s.kind = "tuple" -> TupleSchema(s.subs, value, ctx, pos, Enter(st))
      [] s.kind = "record" -> RecordSchema(s.subs[1].v, value, ctx, pos, Enter(st))
      [] s.kind = "union" -> UnionSchema(s.subs, value, ctx, pos, Enter(st))
      [] s.kind = "lazy" -> LazySchema(s.name, value, ctx, pos, Enter(st))
      [] s.kind = "discriminatedUnion" ->
           DiscriminatedUnionSchema(s.name, s.subs, value, ctx, pos, Enter(st))
      [] OTHER -> TransformSchema(s.subs[1].v, s.name, value, ctx, pos, Enter(st)))
   EXCEPT !.st = Leave(@)]

----------------------------------------------------------------------------
(* The public calls *)

\* mutant: the path is joined without the leading slash
ErrorEntryNoSlash(e) ==
  e.message \o " (at path "
    \o Join([i \in 1..Len(e.path) |-> PathElemString(e.path[i])], "/") \o ")"

\* `${e.message} (at path /${e.path.join('/')})`
ErrorEntry(e) ==
  e.message \o " (at path /"
    \o Join([i \in 1..Len(e.path) |-> PathElemString(e.path[i])], "/") \o ")"

\* `Validation failed: ${context.errors.map(...).join(', ')}`
FailureMessage(errors) ==
  "Validation failed: " \o Join([i \in 1..Len(errors) |-> ErrorEntry(errors[i])], ", ")

\* mutant: the schema keeps one Context for all its calls
NewContextShared(allocated) ==
  IF allocated = <<>> THEN [id |-> 1, errors |-> <<>>] ELSE [id |-> 1, errors |-> allocated[1]]

\* const context: Context = { path: [], errors: [] }: the Context a call
\* allocates, known by its place among the Contexts allocated so far
NewContext(allocated) == [id |-> Len(allocated) + 1, errors |-> <<>>]

\* the Contexts allocated so far, with what the call left in its own
Store(allocated, context, errors) ==
  IF context.id > Len(allocated) THEN Append(allocated, errors)
  ELSE [allocated EXCEPT ![context.id] = errors]

\* what a public call gives back: status is "returned" or "threw"; with it
\* what the call left behind: the callbacks applied, the errors in its
\* Context, the diagnostic passes started and the longest chain of nested
\* validation calls
Outcome(status, success, data, message, errors, exc, st) ==
  [status |-> status, success |-> success, data |-> data, message |-> message,
   errors |-> errors, exc |-> exc, calls |-> st.calls, recorded |-> st.errors,
   rewalks |-> st.rewalks, maxDepth |-> st.maxDepth]

NoOutcome == Outcome("none", FALSE, Undefined, "", <<>>, "", NewState(0))

\* what safeParse makes of the result of the validation function
safeParseResult(result) ==
  IF result.out = "throw"
  THEN Outcome("threw", FALSE, Undefined, "", <<>>, result.exc, result.st)
  ELSE IF result.out = "ok"
  THEN Outcome("returned", TRUE, result.data, "", <<>>, "", result.st)
  ELSE Outcome("returned", FALSE, Undefined, FailureMessage(result.st.errors),
               result.st.errors, "", result.st)

\* safeParse with the Context it allocated
safeParseIn(s, value, epoch, context) ==
  safeParseResult(internalSafeParse(s, value, Ctx(<<>>), <<>>,
                                    [NewState(epoch) EXCEPT !.errors = context.errors]))

safeParse(s, value, epoch) == safeParseIn(s, value, epoch, NewContext(<<>>))

\* what parse makes of the result of safeParse
parseResult(result) ==
  IF result.status = "threw" THEN result
  ELSE IF result.success THEN result
  ELSE [result EXCEPT !.status = "threw", !.message = "", !.errors = <<>>,
                      !.exc = result.message]

\* parse with the Context its safeParse allocated
parseIn(s, value, epoch, context) == parseResult(safeParseIn(s, value, epoch, context))

parse(s, value, epoch) == parseIn(s, value, epoch, NewContext(<<>>))

----------------------------------------------------------------------------
(* The schemas and the inputs of the check *)

\* the longest tuple, union and array
MaxLen == 2
\* the most fields of a shape and own keys of an input object
MaxKeys == 2
\* the deepest chain of nested object schemas
MaxDepth == 3

SeqsUpTo(S, n) == UNION {[1..k -> S] : k \in 0..n}

\* property names: two ordinary ones and one every object inherits
Keys == {"b", "a", "constructor"}
KeyRank(k) == CASE k = "b" -> 1 [] k = "a" -> 2 [] OTHER -> 3

\* the shapes declare their keys in the order b, a, constructor
ShapeKeySeqs ==
  {ks \in SeqsUpTo(Keys, MaxKeys) :
     \A i \in 1..Len(ks), j \in 1..Len(ks) : i < j => KeyRank(ks[i]) < KeyRank(ks[j])}

\* the inputs hold their keys in every order
InputKeySeqs ==
  {ks \in SeqsUpTo(Keys, MaxKeys) :
     \A i \in 1..Len(ks), j \in 1..Len(ks) : i # j => ks[i] # ks[j]}

BasicSchemas == {createStringSchema, createNumberSchema}

SpecialSchemas ==
  { createUnknownSchema,
    createOptionalSchema(createStringSchema),
    createRecordSchema(createStringSchema),
    transform(createStringSchema, "bang"),
    transform(createStringSchema, "throwError"),
    createInstanceofSchema("Object"),
    createObjectSchema(<<KV("a", createNumberSchema)>>),
    createArraySchema(createNumberSchema) }

ChildSchemas == BasicSchemas \cup SpecialSchemas

\* child lists with at most one child that is not a string or number schema
ChildLists ==
  {cs \in SeqsUpTo(ChildSchemas, MaxLen) :
     \A i \in 1..Len(cs), j \in 1..Len(cs) :
        (i # j /\ cs[i] \in SpecialSchemas) => cs[j] \in BasicSchemas}

Shapes ==
  {[i \in 1..Len(ks) |-> KV(ks[i], cs[i])] :
     <<ks, cs>> \in {p \in ShapeKeySeqs \X ChildLists : Len(p[1]) = Len(p[2])}}

RECURSIVE NestedObject(_, _)
\* object({a: object({b: ... leaf})}) with d levels, the keys alternating a, b
NestedObject(d, leaf) ==
  IF d = 0 THEN leaf
  ELSE createObjectSchema(<<KV(IF d % 2 = 1 THEN "a" ELSE "b", NestedObject(d - 1, leaf))>>)

PrimitiveSchemas ==
  { createStringSchema, createNumberSchema, createBooleanSchema, createBigIntSchema,
    createNullSchema, createUndefinedSchema, createUnknownSchema, createDateSchema,
    createInstanceofSchema("Object"),
    createSingleLiteralSchema(Str("x")), createSingleLiteralSchema(Undefined) }

\* the schemas given to optional(), nullable() and nullish()
WrappedSchemas ==
  BasicSchemas \cup {createUnknownSchema, transform(createUnknownSchema, "bang"),
                      createRecordSchema(createStringSchema)}

DerivedSchemas ==
  { createLiteralSetSchema(<<>>), createLiteralSetSchema(<<Str("x"), Num("1")>>),
    createLazySchema("Tree"), createLazySchema("Str") }
  \cup {createOptionalSchema(s) : s \in WrappedSchemas}
  \cup {createNullableSchema(s) : s \in WrappedSchemas}
  \cup {createNullishSchema(s) : s \in WrappedSchemas}
  \cup {transform(s, fn) : s \in {createStringSchema, createUnknownSchema,
                                  createRecordSchema(createStringSchema),
                                  createObjectSchema(<<KV("b", createNumberSchema),
                                                       KV("a", createRecordSchema(createStringSchema))>>)},
                           fn \in {"bang", "ident", "throwError", "throwString"}}

NestedSchemas ==
  {NestedObject(d, leaf) : d \in 2..MaxDepth, leaf \in BasicSchemas}
  \cup { createArraySchema(createObjectSchema(<<KV("b", createStringSchema),
                                                KV("a", createNumberSchema)>>)),
         createArraySchema(createStrictObjectSchema(<<KV("a", createNumberSchema)>>)),
         createArraySchema(createArraySchema(createUnknownSchema)),
         createRecordSchema(createArraySchema(createNumberSchema)),
         createObjectSchema(<<KV("a", createStrictObjectSchema(<<KV("b", createNumberSchema)>>))>>),
         createObjectSchema(<<KV("a", createUnionSchema(<<>>))>>),
         createUnionSchema(<<createUnionSchema(<<>>), createUnionSchema(<<>>)>>),
         createUnionSchema(<<createObjectSchema(<<KV("a", createStringSchema)>>),
                             createObjectSchema(<<KV("a", createNumberSchema),
                                                  KV("b", createNumberSchema)>>)>>),
         createUnionSchema(<<createObjectSchema(<<KV("b", createUndefinedSchema)>>),
                             createObjectSchema(<<KV("a", createStringSchema)>>)>>),
         createUnionSchema(<<createArraySchema(createStringSchema),
                             transform(createNumberSchema, "bang")>>),
         createUnionSchema(<<createObjectSchema(<<KV("a", transform(createStringSchema, "bang")),
                                                  KV("b", createNumberSchema)>>),
                             createObjectSchema(<<KV("a", transform(createStringSchema, "bang"))>>)>>),
         createObjectSchema(<<KV("a", transform(createRecordSchema(createStringSchema), "ident"))>>) }

\* the branches of the discriminated unions, all with the discriminator a
CircleSchema ==
  createObjectSchema(<<KV("a", createSingleLiteralSchema(Str("x"))), KV("b", createNumberSchema)>>)
SquareSchema ==
  createObjectSchema(<<KV("a", createSingleLiteralSchema(Num("1"))),
                       KV("b", transform(createStringSchema, "bang"))>>)
SameSchema ==
  createObjectSchema(<<KV("a", createSingleLiteralSchema(Str("x"))), KV("b", createStringSchema)>>)

DiscriminatedSchemas ==
  {createDiscriminatedUnionSchema("a", branches) :
     branches \in {<<>>, <<CircleSchema, SquareSchema>>, <<SquareSchema, CircleSchema>>,
                   <<CircleSchema, SameSchema>>, <<SameSchema, SquareSchema, CircleSchema>>}}

Schemas ==
  PrimitiveSchemas \cup DerivedSchemas \cup NestedSchemas \cup DiscriminatedSchemas
  \cup {createArraySchema(s) : s \in ChildSchemas}
  \cup {createRecordSchema(s) : s \in ChildSchemas}
  \cup {createTupleSchema(cs) : cs \in ChildLists}
  \cup {createUnionSchema(cs) : cs \in ChildLists}
  \cup {createObjectSchema(sh) : sh \in Shapes}
  \cup {createStrictObjectSchema(sh) : sh \in Shapes}

ScalarValues ==
  {Undefined, Null, Str("x"), Str("1"), Num("1"), Bool("true"), Big("1"), DateOf(0)}

ItemValues == {Str("x"), Num("1"), Undefined}
FieldValues == {Str("x"), Num("1")}

RECURSIVE NestedValue(_, _)
\* {a: {b: ... leaf}} with d levels, matching NestedObject
NestedValue(d, leaf) ==
  IF d = 0 THEN leaf
  ELSE Obj(0, <<KV(IF d % 2 = 1 THEN "a" ELSE "b", NestedValue(d - 1, leaf))>>)

TreeNode(name, children) == Obj(0, <<KV("name", name), KV("children", Arr(0, children))>>)

NestedValues ==
  {NestedValue(d, leaf) : d \in 2..MaxDepth, leaf \in FieldValues}
  \cup { Arr(0, <<Obj(0, <<KV("b", Str("x")), KV("a", Num("1"))>>)>>),
         Arr(0, <<Obj(0, <<KV("a", Str("x")), KV("b", Num("1"))>>),
                  Obj(0, <<KV("a", Num("1"))>>)>>),
         Arr(0, <<Arr(0, <<Num("1")>>), Arr(0, <<>>)>>),
         Arr(0, <<Arr(0, <<Num("1"), Str("x")>>)>>),
         Arr(0, <<DateOf(0), Obj(0, <<>>)>>),
         Obj(0, <<KV("a", Undefined)>>),
         Obj(0, <<KV("a", DateOf(0))>>),
         Obj(0, <<KV("a", Arr(0, <<Num("1"), Str("x")>>))>>),
         Obj(0, <<KV("b", Num("1")), KV("a", Arr(0, <<Num("1")>>))>>),
         Obj(0, <<KV("a", Obj(0, <<KV("a", Num("1"))>>)), KV("b", Str("x"))>>),
         Obj(0, <<KV("a", Obj(0, <<KV("b", Num("1")), KV("a", Str("x"))>>))>>),
         Obj(0, <<KV("b", Num("1")), KV("a", Obj(0, <<KV("b", Str("x"))>>))>>),
         TreeNode(Str("r"), <<TreeNode(Str("k"), <<TreeNode(Str("l"), <<>>)>>)>>),
         TreeNode(Str("r"), <<TreeNode(Str("k"), <<>>),
                              TreeNode(Str("k"), <<TreeNode(Num("1"), <<>>)>>)>>),
         TreeNode(Num("1"), <<>>),
         TreeNode(Str("r"), <<TreeNode(Undefined, <<>>)>>),
         TreeNode(Num("1"), <<TreeNode(Str("k"), <<TreeNode(Null, <<>>),
                                                   TreeNode(Str("l"), <<>>)>>)>>) }

Values ==
  ScalarValues \cup NestedValues
  \cup {Arr(0, items) : items \in SeqsUpTo(ItemValues, MaxLen)}
  \cup {Obj(0, [i \in 1..Len(ks) |-> KV(ks[i], vs[i])]) :
          <<ks, vs>> \in {p \in InputKeySeqs \X SeqsUpTo(FieldValues, MaxKeys) :
                            Len(p[1]) = Len(p[2])}}

----------------------------------------------------------------------------
(* The state machine: a schema is built, then safeParse and parse are      *)
(* called on an input, and parse is called again on what parse returned.   *)

\* one call of the log of calls
Called(api, value, out, context) == [api |-> api, input |-> value, out |-> out, context |-> context.id]

Init ==
  /\ schema \in Schemas
  /\ input \in Values
  /\ pc = "built"
  /\ sp = NoOutcome
  /\ pr = NoOutcome
  /\ rp = NoOutcome
  /\ contexts = <<>>
  /\ log = <<>>

SafeParse ==
  /\ pc = "built"
  /\ LET context == NewContext(contexts)
     IN /\ sp' = safeParseIn(schema, input, 1, context)
        /\ contexts' = Store(contexts, context, sp'.recorded)
        /\ log' = Append(log, Called("safeParse", input, sp', context))
  /\ pc' = "safeParsed"
  /\ UNCHANGED <<schema, input, pr, rp>>

Parse ==
  /\ pc = "safeParsed"
  /\ LET context == NewContext(contexts)
     IN /\ pr' = parseIn(schema, input, 1, context)
        /\ contexts' = Store(contexts, context, pr'.recorded)
        /\ log' = Append(log, Called("parse", input, pr', context))
  /\ pc' = "parsed"
  /\ UNCHANGED <<schema, input, sp, rp>>

\* the value parse returned is parsed again by the same schema
Reparse ==
  /\ pc = "parsed"
  /\ pr.status = "returned"
  /\ LET context == NewContext(contexts)
     IN /\ rp' = parseIn(schema, pr.data, 2, context)
        /\ contexts' = Store(contexts, context, rp'.recorded)
        /\ log' = Append(log, Called("parse", pr.data, rp', context))
  /\ pc' = "reparsed"
  /\ UNCHANGED <<schema, input, sp, pr>>

Next == SafeParse \/ Parse \/ Reparse

Spec == Init /\ [][Next]_vars

\* the most calls made on a shared schema
MaxCalls == 3

\* the schemas and the inputs of the calls on a shared schema
SharedSchemas ==
  { createNumberSchema,
    createObjectSchema(<<KV("b", createStringSchema), KV("a", createNumberSchema)>>),
    createStrictObjectSchema(<<KV("a", createNumberSchema)>>),
    createArraySchema(transform(createStringSchema, "throwError")),
    createUnionSchema(<<createStringSchema, createArraySchema(createNumberSchema)>>),
    createRecordSchema(createNumberSchema),
    createLazySchema("Tree"),
    transform(createUnknownSchema, "bang") }

SharedValues ==
  { Num("1"), Str("x"),
    Arr(0, <<Str("x"), Num("1")>>),
    Obj(0, <<KV("a", Str("x")), KV("b", Num("1"))>>),
    TreeNode(Str("r"), <<TreeNode(Num("1"), <<>>)>>) }

\* one schema is built and shared by all the calls that follow
InitShared ==
  /\ schema \in SharedSchemas
  /\ input = Undefined
  /\ pc = "shared"
  /\ sp = NoOutcome
  /\ pr = NoOutcome
  /\ rp = NoOutcome
  /\ contexts = <<>>
  /\ log = <<>>

\* safeParse or parse is called on the shared schema
\* a call that used context and gave out is over
Over(api, value, context, out) ==
  /\ contexts' = Store(contexts, context, out.recorded)
  /\ log' = Append(log, Called(api, value, out, context))

Call(api, value) ==
  /\ pc = "shared"
  /\ Len(log) < MaxCalls
  /\ Over(api, value, NewContext(contexts),
          IF api = "safeParse" THEN safeParseIn(schema, value, 1, NewContext(contexts))
          ELSE parseIn(schema, value, 1, NewContext(contexts)))
  /\ UNCHANGED <<schema, input, pc, sp, pr, rp>>

NextShared == \E api \in {"safeParse", "parse"}, value \in SharedValues : Call(api, value)

SpecShared == InitShared /\ [][NextShared]_vars

----------------------------------------------------------------------------
(* Properties *)

SafeParsed == pc # "built"
Parsed == pc \in {"parsed", "reparsed"}
Returned == SafeParsed /\ sp.status = "returned"
Succeeded == Returned /\ sp.success
Failed == Returned /\ ~sp.success

\* C1: safeParse never throws: for every schema and every input the call
\* returns a result object.
C1_SafeParseNeverThrows == SafeParsed => sp.status = "returned"

\* C2: whenever safeParse returns success:false, its errors list holds at
\* least one error.
C2_FailureHasAnError == Failed => Len(sp.errors) >= 1

\* C3: parse returns the data d exactly when safeParse returns success with
\* data d; otherwise parse raises an exception whose message is the message
\* field safeParse returns.
C3_ParseAgreesWithSafeParse ==
  Parsed =>
    IF sp.status = "returned" /\ sp.success
    THEN pr.status = "returned" /\ pr.data = sp.data
    ELSE pr.status = "threw" /\ sp.status = "returned" /\ pr.exc = sp.message

\* the value passes the object validator's test of being a non-null,
\* non-array object
IsObjectInput(v) == v.t \in {"object", "date"}

IsObjectSchema(s) == s.kind = "object"

PrimitiveKinds == {"string", "number", "boolean", "bigint", "null", "undefined"}

PrimitiveShape(shape) == \A i \in 1..Len(shape) : shape[i].v.kind \in PrimitiveKinds

\* the declared fields whose value is not of the field's primitive kind, as
\* paths under prefix, in declared order
ExpectedFieldErrorPaths(shape, object, prefix) ==
  LET failing == SelectSeq(shape, LAMBDA f : Get(object, f.k).t # f.v.kind)
  IN [i \in 1..Len(failing) |-> Append(prefix, PKey(failing[i].k))]

PathsOf(errors) == [i \in 1..Len(errors) |-> errors[i].path]

RECURSIVE Flatten(_)
Flatten(seqs) == IF seqs = <<>> THEN <<>> ELSE Head(seqs) \o Flatten(Tail(seqs))

\* the errors below the objects themselves: all but those at an object's own path
FieldErrorPaths(errors, ownPaths) ==
  PathsOf(SelectSeq(errors, LAMBDA e : e.path \notin ownPaths))

ArrayOfPrimitiveObjects(s) ==
  s.kind = "array" /\ IsObjectSchema(s.subs[1].v) /\ PrimitiveShape(s.subs[1].v.subs)

ArrayOfObjects(v) == IsArray(v) /\ \A i \in 1..Len(v.kids) : IsObjectInput(v.kids[i].v)

\* C4: an object schema with primitive field schemas reports every failing
\* declared field, once, at [...prefix, key], in declared order, and no
\* passing field: at the root (prefix empty) and as the item of an array
\* (prefix [index]).
C4_EveryFailingFieldReported ==
  /\ (Failed /\ IsObjectSchema(schema) /\ PrimitiveShape(schema.subs) /\ IsObjectInput(input))
       => FieldErrorPaths(sp.errors, {<<>>}) = ExpectedFieldErrorPaths(schema.subs, input, <<>>)
  /\ (Failed /\ ArrayOfPrimitiveObjects(schema) /\ ArrayOfObjects(input))
       => FieldErrorPaths(sp.errors, {<<PIdx(i - 1)>> : i \in 1..Len(input.kids)})
            = Flatten([i \in 1..Len(input.kids) |->
                 ExpectedFieldErrorPaths(schema.subs[1].v.subs, input.kids[i].v, <<PIdx(i - 1)>>)])

\* two declared fields of different kinds, both present in the input, fail in one call
C4_Witness ==
  /\ Failed /\ IsObjectSchema(schema) /\ PrimitiveShape(schema.subs) /\ IsObjectInput(input)
  /\ Len(ExpectedFieldErrorPaths(schema.subs, input, <<>>)) = 2
  /\ Len(sp.errors) >= 2
  /\ schema.subs[1].v.kind # schema.subs[2].v.kind
  /\ HasOwn(input, schema.subs[1].k) /\ HasOwn(input, schema.subs[2].k)

NestedKey(level) == IF level % 2 = 1 THEN "a" ELSE "b"

\* the keys from the root of NestedObject(d, _) to its leaf
NestedPath(d) == [i \in 1..d |-> PKey(NestedKey(d - i + 1))]

\* C5: object schemas nested d deep with one wrong-typed leaf give exactly
\* one error, whose path is the keys from the root to the leaf.
C5_NestedPathReportedOnce ==
  \A d \in 1..MaxDepth : \A leaf \in BasicSchemas : \A v \in FieldValues :
    (SafeParsed /\ schema = NestedObject(d, leaf) /\ input = NestedValue(d, v) /\ v.t # leaf.kind)
      => /\ Failed
         /\ sp.errors = <<Err(NestedPath(d), "Expected " \o leaf.kind \o ", got " \o v.t)>>

C5_Witness ==
  /\ Failed
  /\ schema = NestedObject(MaxDepth, createNumberSchema)
  /\ input = NestedValue(MaxDepth, Str("x"))
  /\ Len(sp.errors[1].path) = MaxDepth

\* the property exists on the object, as its own or an inherited one
HasProperty(v, key) == HasOwn(v, key) \/ key \in ObjectPrototypeKeys

RECURSIVE ValidPath(_, _)
\* following the path from v reaches an existing property or element at every step
ValidPath(v, path) ==
  IF path = <<>> THEN TRUE
  ELSE LET e == Head(path)
       IN IF e.n >= 0
          THEN IsArray(v) /\ e.n < Len(v.kids) /\ ValidPath(v.kids[e.n + 1].v, Tail(path))
          ELSE IsObjectInput(v) /\ HasProperty(v, e.s) /\ ValidPath(Get(v, e.s), Tail(path))

RECURSIVE ValidOrMissingLast(_, _)
\* as ValidPath, but the last step may name a key the object lacks
ValidOrMissingLast(v, path) ==
  IF path = <<>> THEN TRUE
  ELSE LET e == Head(path)
       IN IF e.n >= 0
          THEN IsArray(v) /\ e.n < Len(v.kids) /\ ValidOrMissingLast(v.kids[e.n + 1].v, Tail(path))
          ELSE /\ IsObjectInput(v)
               /\ IF HasProperty(v, e.s) THEN ValidOrMissingLast(Get(v, e.s), Tail(path))
                  ELSE Tail(path) = <<>>

\* C6 as stated: the path of every error returned by safeParse is a valid
\* location inside the input.
C6_EveryPathIsValidLocation ==
  Failed => \A i \in 1..Len(sp.errors) : ValidPath(input, sp.errors[i].path)

\* C6 as amended: every step of the path of every error reaches an existing
\* property or element of the input, except that the last step may be a
\* declared key that the input object lacks.
C6_PathValidUpToMissingField ==
  Failed => \A i \in 1..Len(sp.errors) : ValidOrMissingLast(input, sp.errors[i].path)

\* one call reports a missing declared field and an error two levels deep
C6_Witness ==
  /\ Failed
  /\ \E i \in 1..Len(sp.errors) : ~ValidPath(input, sp.errors[i].path)
  /\ \E i \in 1..Len(sp.errors) :
        Len(sp.errors[i].path) >= 2 /\ ValidPath(input, sp.errors[i].path)

DeclaredKey(shape, key) == \E i \in 1..Len(shape) : shape[i].k = key

\* the own keys of the object that the shape does not declare, in input key order
UndeclaredKeys(shape, object) ==
  SelectSeq(OwnKeys(object), LAMBDA key : ~DeclaredKey(shape, key))

IsStrictObjectSchema(s) == IsObjectSchema(s) /\ s.strict

\* C7: a strict object schema fails on every object input that has an own
\* key the shape does not declare, whatever the key's name.
C7_StrictRejectsEveryUndeclaredKey ==
  (Returned /\ IsStrictObjectSchema(schema) /\ IsObjectInput(input)
     /\ UndeclaredKeys(schema.subs, input) # <<>>)
    => ~sp.success

\* C8: when a strict object schema fails on an input with undeclared keys,
\* the errors hold exactly one error at the object's own path, the last one,
\* "Unrecognized keys: " and all the undeclared keys joined by ", " in input
\* key order; the result of a non-strict object schema holds no undeclared key.
C8_OneAggregateErrorNamesAllUndeclaredKeys ==
  /\ (Failed /\ IsStrictObjectSchema(schema) /\ IsObjectInput(input)
        /\ UndeclaredKeys(schema.subs, input) # <<>>)
       => /\ SelectSeq(sp.errors, LAMBDA e : e.path = <<>>)
               = <<Err(<<>>, "Unrecognized keys: "
                               \o Join(UndeclaredKeys(schema.subs, input), ", "))>>
          /\ sp.errors[Len(sp.errors)].path = <<>>
  /\ (Succeeded /\ IsObjectSchema(schema) /\ ~schema.strict /\ IsObjectInput(input))
       => \A i \in 1..Len(sp.data.kids) : DeclaredKey(schema.subs, sp.data.kids[i].k)

\* the own property, else undefined
OwnOrUndefined(object, key) == IF HasOwn(object, key) THEN Get(object, key) ELSE Undefined

\* C9: on success an object schema returns exactly the declared keys in
\* declared order, each mapped to the result of validating input[k] with the
\* field's schema, where a key absent from the input is validated as undefined.
C9_ResultHoldsExactlyTheDeclaredKeys ==
  (Succeeded /\ IsObjectSchema(schema) /\ IsObjectInput(input))
    => /\ OwnKeys(sp.data) = [i \in 1..Len(schema.subs) |-> schema.subs[i].k]
       /\ \A i \in 1..Len(schema.subs) :
            LET field == internalSafeParse(schema.subs[i].v,
                                           OwnOrUndefined(input, schema.subs[i].k),
                                           NoCtx, <<>>, NewState(1))
            IN field.out = "ok" /\ sp.data.kids[i].v = field.data

IsCompositeSchema(s) == s.kind \in {"object", "array", "tuple", "record"}

IsReference(v) == v.t \in {"object", "array", "date"}

RECURSIVE SharesInputReference(_)
\* the value, or an object or array reachable inside it, is a node of the input
SharesInputReference(v) ==
  \/ IsReference(v) /\ v.ref = 0
  \/ \E i \in 1..Len(v.kids) : SharesInputReference(v.kids[i].v)

RECURSIVE HasPassThrough(_)
\* an unknown() or instanceof() schema occurs in the schema (the thunks of the
\* lazy schemas hold none)
HasPassThrough(s) ==
  \/ s.kind \in {"unknown", "instanceof"}
  \/ \E i \in 1..Len(s.subs) : HasPassThrough(s.subs[i].v)

\* C10 as stated: the successful result of a composite schema, and every
\* object or array reachable inside it, is no reference of the input.
C10_ResultSharesNoReference ==
  (Succeeded /\ IsCompositeSchema(schema)) => ~SharesInputReference(sp.data)

\* C10 as amended: the successful result of a composite schema is itself a
\* new value, and it holds no reference of the input unless an unknown() or
\* instanceof() schema occurs in the schema.
C10_ResultIsNewOutsidePassThrough ==
  (Succeeded /\ IsCompositeSchema(schema))
    => /\ sp.data.ref # 0
       /\ ~HasPassThrough(schema) => ~SharesInputReference(sp.data)

\* an array of arrays is rebuilt level by level
C10_Witness ==
  /\ Succeeded /\ schema.kind = "array" /\ ~HasPassThrough(schema)
  /\ Len(input.kids) >= 1 /\ IsArray(input.kids[1].v) /\ Len(input.kids[1].v.kids) >= 1
  /\ sp.data.ref # 0 /\ sp.data.kids[1].v.ref # 0

Reparsed == pc = "reparsed"

RECURSIVE StripRefs(_)
\* the value without the identities of its objects and arrays
StripRefs(v) ==
  [v EXCEPT !.ref = 0, !.kids = [i \in 1..Len(v.kids) |-> KV(v.kids[i].k, StripRefs(v.kids[i].v))]]

\* the values are equal key by key and item by item
DeepEqual(a, b) == StripRefs(a) = StripRefs(b)

RECURSIVE HasTransform(_)
HasTransform(s) ==
  \/ s.kind = "transform"
  \/ \E i \in 1..Len(s.subs) : HasTransform(s.subs[i].v)

RECURSIVE AcceptedTypes(_)
\* the runtime kinds of the values the schema can accept (the thunks of the
\* lazy schemas return an object schema and a string schema)
AcceptedTypes(s) ==
  CASE s.kind \in PrimitiveKinds -> {s.kind}
    [] s.kind = "literal" -> {s.lit.t}
    [] s.kind = "instanceof" ->
         IF s.name = "Date" THEN {"date"} ELSE {"object", "array", "date", "function"}
    [] s.kind \in {"object", "record"} -> {"object", "date"}
    [] s.kind \in {"array", "tuple"} -> {"array"}
    [] s.kind = "lazy" -> IF s.name = "Tree" THEN {"object", "date"} ELSE {"string"}
    [] s.kind = "union" -> UNION {AcceptedTypes(s.subs[i].v) : i \in 1..Len(s.subs)}
    [] OTHER -> {"undefined", "null", "string", "number", "boolean", "bigint",
                 "function", "array", "object", "date"}

RECURSIVE DisjointUnions(_)
\* the branches of every union in the schema accept values of different runtime types
DisjointUnions(s) ==
  /\ s.kind = "union" =>
       \A i \in 1..Len(s.subs), j \in 1..Len(s.subs) :
          i # j => AcceptedTypes(s.subs[i].v) \cap AcceptedTypes(s.subs[j].v) = {}
  /\ \A i \in 1..Len(s.subs) : DisjointUnions(s.subs[i].v)

\* C11 as stated: for every schema S and accepted input v, S.parse(S.parse(v))
\* succeeds and is deeply equal to S.parse(v), and for a composite schema it
\* is another reference than the first result.
C11_ParseIsIdempotent ==
  Reparsed =>
    /\ rp.status = "returned"
    /\ DeepEqual(rp.data, pr.data)
    /\ IsCompositeSchema(schema) => rp.data.ref # pr.data.ref

\* C11 as amended: the same, for the schemas that hold no transform and whose
\* unions have branches accepting different runtime types.
C11_ParseIsIdempotentWithoutTransform ==
  (Reparsed /\ ~HasTransform(schema) /\ DisjointUnions(schema)) =>
    /\ rp.status = "returned"
    /\ DeepEqual(rp.data, pr.data)
    /\ IsCompositeSchema(schema) => rp.data.ref # pr.data.ref

\* a strict object schema parses its own nested result again
C11_Witness ==
  /\ Reparsed /\ ~HasTransform(schema) /\ DisjointUnions(schema)
  /\ IsStrictObjectSchema(schema) /\ Len(schema.subs) = 2
  /\ \E i \in 1..2 : IsReference(pr.data.kids[i].v)
  /\ rp.status = "returned" /\ rp.data.ref = 2 /\ pr.data.ref = 1

\* the name of the runtime type of a value: undefined, null, array, else
\* what typeof gives
RuntimeTypeName(v) ==
  CASE v.t \in {"object", "date"} -> "object"
    [] OTHER -> v.t

IsPrimitiveSchema(s) == s \in {createStringSchema, createNumberSchema, createBooleanSchema,
                               createBigIntSchema, createNullSchema, createUndefinedSchema}

\* C12: a primitive schema returns a value of the matching runtime type
\* unchanged and fails on a value of any other runtime type with a message
\* naming the expected kind and the actual type; nothing is coerced.
C12_PrimitivesAcceptTheirTypeOnly ==
  (SafeParsed /\ IsPrimitiveSchema(schema)) =>
    IF input.t = schema.kind
    THEN Succeeded /\ sp.data = input /\ (Parsed => pr.status = "returned" /\ pr.data = input)
    ELSE /\ Failed
         /\ sp.errors = <<Err(<<>>, "Expected " \o schema.kind \o ", got "
                                      \o RuntimeTypeName(input))>>
         /\ Parsed => pr.status = "threw"

\* the number schema refuses the string "1"
C12_Witness ==
  Parsed /\ schema = createNumberSchema /\ input = Str("1") /\ Failed /\ pr.status = "threw"

IsTypeTagSchema(s) == s \in {createStringSchema, createNumberSchema, createBooleanSchema,
                             createBigIntSchema}

\* C13: the failure message of the string, number, boolean and bigint
\* schemas is "Expected <kind>, got <inspection>", the inspection
\* rendering the type and the value of a scalar.
C13_MessageRendersTypeAndValue ==
  (Failed /\ IsTypeTagSchema(schema)) =>
    sp.errors[1].message = "Expected " \o schema.kind \o ", got " \o inspectValue(input)

RECURSIVE RenderPath(_)
\* "/" before every element of the path but the first
RenderPath(path) ==
  IF path = <<>> THEN ""
  ELSE IF Len(path) = 1 THEN PathElemString(path[1])
  ELSE RenderPath(SubSeq(path, 1, Len(path) - 1)) \o "/" \o PathElemString(path[Len(path)])

RECURSIVE RenderErrors(_)
\* the entries of the errors, from the first to the last, with ", " between them
RenderErrors(errors) ==
  IF errors = <<>> THEN ""
  ELSE LET last == errors[Len(errors)]
           entry == last.message \o " (at path /" \o RenderPath(last.path) \o ")"
       IN IF Len(errors) = 1 THEN entry
          ELSE RenderErrors(SubSeq(errors, 1, Len(errors) - 1)) \o ", " \o entry

\* C14: the message of a failure is "Validation failed: " and one entry
\* "<message> (at path /<path joined by />)" per error, in the order of the
\* errors, joined by ", "; an error at the root has the entry
\* "<message> (at path /)".
C14_MessageListsEveryError ==
  Failed =>
    /\ sp.message = "Validation failed: " \o RenderErrors(sp.errors)
    /\ (Len(sp.errors) = 1 /\ sp.errors[1].path = <<>>)
         => sp.message = "Validation failed: " \o sp.errors[1].message \o " (at path /)"

\* two errors, one of them under an array index and a key
C14_Witness ==
  /\ Failed /\ Len(sp.errors) >= 2
  /\ \E i \in 1..Len(sp.errors) :
       /\ Len(sp.errors[i].path) = 2
       /\ sp.errors[i].path[1].n >= 0
       /\ sp.errors[i].path[2].n < 0

\* what the callbacks that throw throw: the message of the Error, or the
\* string form of a thrown value that is no Error
ThrownMessage(fn) == IF fn = "throwError" THEN "boom" ELSE "oops"

ThrowingFns == {"throwError", "throwString"}

TransformCall(fn, pos, diag) == [kind |-> "transform", name |-> fn, pos |-> pos, diag |-> diag]

ErrorsAt(errors, path) == {i \in 1..Len(errors) : errors[i].path = path}

\* the keys of the fields, or the indexes of the items, a transform with a
\* throwing callback over the string schema is applied to
ThrowingAt(s, v) ==
  IF s.kind = "object" /\ IsObjectInput(v)
  THEN {PKey(s.subs[i].k) : i \in {j \in 1..Len(s.subs) :
           /\ s.subs[j].v = transform(createStringSchema, "throwError")
           /\ Get(v, s.subs[j].k).t = "string"}}
  ELSE IF s.kind = "array" /\ IsArray(v)
          /\ s.subs[1].v = transform(createStringSchema, "throwError")
  THEN {PIdx(i - 1) : i \in {j \in 1..Len(v.kids) : v.kids[j].v.t = "string"}}
  ELSE {}

\* C15: a transform applies its callback only after the inner schema has
\* accepted the value; when the callback throws, the call returns a failure
\* with exactly one error for the throw at the path of the transformed value,
\* whose message is the Error's message or the string form of what was thrown.
C15_ThrowBecomesOneErrorAtPath ==
  /\ (SafeParsed /\ schema.kind = "transform") =>
       LET inner == safeParse(schema.subs[1].v, input, 1)
           fn == schema.name
       IN /\ sp.status = "returned"
          /\ (inner.status = "returned" /\ ~inner.success) =>
               Failed /\ sp.errors = inner.errors /\ sp.calls = inner.calls
          /\ inner.success => sp.calls = inner.calls \o <<TransformCall(fn, <<>>, TRUE)>>
          /\ (inner.success /\ fn \in ThrowingFns) =>
               Failed /\ sp.errors = <<Err(<<>>, ThrownMessage(fn))>>
          /\ (inner.success /\ fn \notin ThrowingFns) => Succeeded
  /\ (SafeParsed /\ ThrowingAt(schema, input) # {}) =>
       /\ Failed
       /\ \A e \in ThrowingAt(schema, input) :
            /\ Cardinality(ErrorsAt(sp.errors, <<e>>)) = 1
            /\ \A i \in ErrorsAt(sp.errors, <<e>>) : sp.errors[i].message = "boom"

\* a field whose transform throws, beside a field that fails on its own
C15_Witness ==
  /\ Failed /\ schema.kind = "object" /\ Len(schema.subs) = 2
  /\ ThrowingAt(schema, input) # {}
  /\ Len(sp.errors) = 2

\* the fast pass of branch i of the union, on its own
FastBranch(i) == internalSafeParse(schema.subs[i].v, input, NoCtx, <<>>, NewState(1))

Accepting == {i \in 1..Len(schema.subs) : FastBranch(i).out = "ok"}

FirstAccepting == CHOOSE i \in Accepting : \A j \in Accepting : i <= j

RECURSIVE CallsUpTo(_)
\* the callbacks the fast passes of branches 1..i apply, in order
CallsUpTo(i) == IF i = 0 THEN <<>> ELSE CallsUpTo(i - 1) \o FastBranch(i).st.calls

AddsSingletons(singletons, s) ==
  IF input \in singletons
  THEN Succeeded /\ sp.data = input /\ sp.calls = <<>>
  ELSE LET wrapped == safeParse(s, input, 1)
       IN /\ sp.status = wrapped.status
          /\ sp.success = wrapped.success
          /\ sp.data = wrapped.data

\* C17: optional() adds undefined, nullable() adds null and nullish() adds
\* both, each returned without evaluating the wrapped schema; on every other
\* value the derived schema accepts exactly when the wrapped schema accepts
\* and returns the same data.
C17_OptionalNullableNullish ==
  SafeParsed =>
    \A s \in WrappedSchemas :
      /\ schema = createOptionalSchema(s) => AddsSingletons({Undefined}, s)
      /\ schema = createNullableSchema(s) => AddsSingletons({Null}, s)
      /\ schema = createNullishSchema(s) => AddsSingletons({Undefined, Null}, s)

\* optional() over a schema that would accept undefined and apply a callback
C17_Witness ==
  /\ Succeeded /\ input = Undefined
  /\ schema = createOptionalSchema(transform(createUnknownSchema, "bang"))
  /\ sp.data = Undefined

\* the outcome of item schema i of the tuple on item i of the input
TupleItem(i) == safeParse(schema.subs[i].v, input.kids[i].v, 1)

\* C18: a tuple on an array of another length fails with the single error
\* "Expected array of length <N>, got array of length <M>" at its own path;
\* on an array of its length it validates item i against item schema i and
\* reports each failing index at path [i].
C18_TupleLengthThenItems ==
  (Returned /\ schema.kind = "tuple" /\ IsArray(input)) =>
    IF Len(input.kids) # Len(schema.subs)
    THEN /\ Failed
         /\ sp.errors = <<Err(<<>>, "Expected array of length " \o ToString(Len(schema.subs))
                                      \o ", got array of length "
                                      \o ToString(Len(input.kids)))>>
    ELSE LET failing == {i \in 1..Len(schema.subs) : ~TupleItem(i).success}
         IN /\ Succeeded <=> failing = {}
            /\ Succeeded => \A i \in 1..Len(schema.subs) : sp.data.kids[i].v = TupleItem(i).data
            /\ Failed =>
                 /\ \A i \in failing :
                      \E j \in 1..Len(sp.errors) : sp.errors[j].path[1] = PIdx(i - 1)
                 /\ \A j \in 1..Len(sp.errors) :
                      /\ Len(sp.errors[j].path) >= 1
                      /\ \E i \in failing : sp.errors[j].path[1] = PIdx(i - 1)

\* a tuple of two on an array of one whose item is of the wrong type as well
C18_Witness ==
  /\ Failed /\ schema = createTupleSchema(<<createStringSchema, createNumberSchema>>)
  /\ input = Arr(0, <<Num("1")>>)
  /\ Len(sp.errors) = 1

\* the outcome of the item schema of the array on item i of the input
ArrayItem(i) == safeParse(schema.subs[1].v, input.kids[i].v, 1)

RECURSIVE ItemErrorsUpTo(_)
\* the errors of items 1..i, each under the index of its item
ItemErrorsUpTo(i) ==
  IF i = 0 THEN <<>>
  ELSE ItemErrorsUpTo(i - 1)
         \o [j \in 1..Len(ArrayItem(i).errors) |->
               Err(<<PIdx(i - 1)>> \o ArrayItem(i).errors[j].path, ArrayItem(i).errors[j].message)]

\* C19: an array schema on an array succeeds exactly when every item passes,
\* the result then holding the parse of each item in order; on failure the
\* errors are those of every failing item, each under its index, in
\* increasing index order, and none for a passing item.  An input that is
\* no array gives the single error "Expected array, got <type>".
C19_ArrayValidatesEveryItem ==
  (Returned /\ schema.kind = "array") =>
    IF ~IsArray(input)
    THEN Failed /\ sp.errors = <<Err(<<>>, "Expected array, got " \o RuntimeTypeName(input))>>
    ELSE /\ Succeeded <=> \A i \in 1..Len(input.kids) : ArrayItem(i).success
         /\ Succeeded =>
              /\ Len(sp.data.kids) = Len(input.kids)
              /\ \A i \in 1..Len(input.kids) : sp.data.kids[i].v = ArrayItem(i).data
         /\ Failed => sp.errors = ItemErrorsUpTo(Len(input.kids))

\* an array of two failing items
C19_Witness ==
  /\ Failed /\ schema = createArraySchema(createNumberSchema)
  /\ input = Arr(0, <<Str("x"), Undefined>>)
  /\ Len(sp.errors) = 2

ThunkCall(fn, pos, diag) == [kind |-> "thunk", name |-> fn, pos |-> pos, diag |-> diag]

\* C20: a lazy schema does not invoke its thunk when it is built; a
\* validation call invokes it once and delegates to the schema it returns,
\* so that success, data and errors are those of that schema.
C20_LazyDelegatesToThunk ==
  schema.kind = "lazy" =>
    /\ pc = "built" => sp.calls = <<>>
    /\ SafeParsed =>
         LET produced == safeParse(Thunk(schema.name), input, 1)
         IN /\ sp.status = produced.status
            /\ sp.success = produced.success
            /\ sp.data = produced.data
            /\ sp.errors = produced.errors
            /\ sp.message = produced.message
            /\ sp.calls = <<ThunkCall(schema.name, <<>>, TRUE)>> \o produced.calls

\* the tree schema fails on a name two levels down
C20_Witness ==
  /\ Failed /\ schema = createLazySchema("Tree")
  /\ \E i \in 1..Len(sp.errors) : Len(sp.errors[i].path) = 5

RECURSIVE IsTree(_)
\* a finite tree { name, children: [tree, ...] }, whatever the names are
IsTree(v) ==
  /\ v.t = "object"
  /\ OwnKeys(v) = <<"name", "children">>
  /\ IsArray(v.kids[2].v)
  /\ \A i \in 1..Len(v.kids[2].v.kids) : IsTree(v.kids[2].v.kids[i].v)

RECURSIVE TreeLevels(_)
TreeLevels(v) ==
  LET children == v.kids[2].v.kids
      below == {TreeLevels(children[i].v) : i \in 1..Len(children)}
  IN 1 + (IF below = {} THEN 0 ELSE CHOOSE n \in below : \A m \in below : m <= n)

RECURSIVE BadNamePaths(_, _)
\* the paths ["children", i1, "children", i2, ..., "name"] of the nodes of
\* the tree whose name is not a string
BadNamePaths(v, prefix) ==
  (IF v.kids[1].v.t = "string" THEN {} ELSE {Append(prefix, PKey("name"))})
  \cup UNION {BadNamePaths(v.kids[2].v.kids[i].v,
                           prefix \o <<PKey("children"), PIdx(i - 1)>>) :
                i \in 1..Len(v.kids[2].v.kids)}

\* C21: the lazy self-referential tree schema accepts every tree whose names
\* are strings, and rejects a tree with a wrong-typed name with an error
\* whose path is the full sequence children, i1, children, i2, ..., name
\* leading to the node.
C21_TreeSchemaReportsFullPath ==
  (SafeParsed /\ schema = createLazySchema("Tree") /\ IsTree(input)) =>
    /\ Succeeded <=> BadNamePaths(input, <<>>) = {}
    /\ Succeeded => DeepEqual(sp.data, input)
    /\ Failed =>
         /\ {sp.errors[i].path : i \in 1..Len(sp.errors)} = BadNamePaths(input, <<>>)
         /\ Len(sp.errors) = Cardinality(BadNamePaths(input, <<>>))
         /\ \A i \in 1..Len(sp.errors) :
              sp.errors[i].message = "Expected string, got " \o RuntimeTypeName(
                 IF Len(sp.errors[i].path) = 1 THEN input.kids[1].v
                 ELSE IF Len(sp.errors[i].path) = 3
                 THEN input.kids[2].v.kids[sp.errors[i].path[2].n + 1].v.kids[1].v
                 ELSE input.kids[2].v.kids[sp.errors[i].path[2].n + 1].v
                        .kids[2].v.kids[sp.errors[i].path[4].n + 1].v.kids[1].v)

\* a tree of three levels with wrong-typed names at the first and the third
C21_Witness ==
  /\ Failed /\ schema = createLazySchema("Tree") /\ IsTree(input)
  /\ TreeLevels(input) = 3
  /\ <<PKey("name")>> \in BadNamePaths(input, <<>>)
  /\ <<PKey("children"), PIdx(0), PKey("children"), PIdx(0), PKey("name")>>
       \in BadNamePaths(input, <<>>)

\* a well-typed tree of three levels is accepted
C21_WitnessAccepted ==
  /\ Succeeded /\ schema = createLazySchema("Tree") /\ IsTree(input)
  /\ TreeLevels(input) = 3

\* C22: a discriminated union on an object fails with "Invalid discriminator
\* value <inspected value>" at [discriminatorKey] when no branch declares the
\* input's discriminator value, fails with "Ambiguous discriminator value
\* <inspected value>" at the same path when several do, and otherwise gives
\* the result or the errors of the one branch that declares it, no other
\* branch being evaluated.
C22_DiscriminatorSelectsTheBranch ==
  (SafeParsed /\ schema.kind = "discriminatedUnion" /\ IsObjectInput(input)) =>
    LET discriminator == Get(input, schema.name)
        declaring == {i \in 1..Len(schema.subs) :
                        \E f \in 1..Len(schema.subs[i].v.subs) :
                          /\ schema.subs[i].v.subs[f].k = schema.name
                          /\ schema.subs[i].v.subs[f].v.lit.t = discriminator.t
                          /\ schema.subs[i].v.subs[f].v.lit.s = discriminator.s}
    IN /\ declaring = {} =>
            /\ Failed
            /\ sp.errors = <<Err(<<PKey(schema.name)>>,
                                 "Invalid discriminator value " \o inspectValue(discriminator))>>
       /\ Cardinality(declaring) > 1 =>
            /\ Failed
            /\ sp.errors = <<Err(<<PKey(schema.name)>>,
                                 "Ambiguous discriminator value " \o inspectValue(discriminator))>>
       /\ \A i \in declaring :
            declaring = {i} =>
              LET branch == safeParse(schema.subs[i].v, input, 1)
              IN /\ sp.status = branch.status /\ sp.success = branch.success
                 /\ sp.data = branch.data /\ sp.errors = branch.errors
                 /\ sp.message = branch.message /\ sp.calls = branch.calls

\* two branches declare the value "x" of the input
C22_Witness ==
  /\ Failed /\ schema.kind = "discriminatedUnion"
  /\ IsObjectInput(input) /\ Get(input, "a") = Str("x")
  /\ sp.errors = <<Err(<<PKey("a")>>, "Ambiguous discriminator value string \"x\"")>>

\* the outcome of a call that is the only call ever made on the schema
OnlyCall(c) ==
  IF c.api = "safeParse" THEN safeParse(schema, c.input, 1) ELSE parse(schema, c.input, 1)

\* C23: the calls on a shared schema are independent: the result of each call
\* is that of the same call made alone, no error of one call is in the result
\* of another, and the errors list a call returned is not changed by the
\* calls after it.
C23_CallsAreIndependent ==
  \A k \in 1..Len(log) :
    /\ log[k].out = OnlyCall(log[k])
    /\ contexts[log[k].context] = log[k].out.recorded
    /\ \A j \in 1..Len(log) : j # k => log[j].context # log[k].context

\* a call that fails with two errors, followed by a call on another input
\* that fails with other errors, followed by a call that succeeds
C23_Witness ==
  /\ pc = "shared" /\ Len(log) = 3
  /\ Len(log[1].out.errors) = 2
  /\ log[2].input # log[1].input /\ log[2].out.status = "returned"
  /\ log[2].out.errors # <<>> /\ log[2].out.errors # log[1].out.errors
  /\ log[3].out.success
  /\ contexts[1] = log[1].out.errors

\* the outcome of branch i of the union at the root, on its own
Branch(i) == safeParse(schema.subs[i].v, input, 1)

RECURSIVE BranchErrorsUpTo(_)
\* the errors of branches 1..i, in the order of the branches
BranchErrorsUpTo(i) == IF i = 0 THEN <<>> ELSE BranchErrorsUpTo(i - 1) \o Branch(i).errors

\* the errors, with the path prefix put before each path
Under(prefix, errors) ==
  [j \in 1..Len(errors) |-> Err(prefix \o errors[j].path, errors[j].message)]

\* the union the optional() of the check builds, as a field of an object
OptionalString == createOptionalSchema(createStringSchema)

\* C24: when every branch of a union rejects the value, the errors are the
\* concatenation, in branch order, of the errors of each branch validated at
\* the union's own path, with no path element for the union or the branch;
\* primitive branches give one error each, all at the union's path.
C24_UnionErrorsAreTheBranchErrors ==
  /\ (Failed /\ schema.kind = "union") =>
       /\ sp.errors = BranchErrorsUpTo(Len(schema.subs))
       /\ (\A i \in 1..Len(schema.subs) : schema.subs[i].v.kind \in PrimitiveKinds) =>
            /\ Len(sp.errors) = Len(schema.subs)
            /\ \A j \in 1..Len(sp.errors) : sp.errors[j].path = <<>>
  /\ (Failed /\ schema.kind = "object" /\ IsObjectInput(input)) =>
       \A f \in 1..Len(schema.subs) :
         LET key == schema.subs[f].k
             own == safeParse(OptionalString, Get(input, key), 1)
         IN (schema.subs[f].v = OptionalString /\ ~own.success) =>
              \E j \in 1..(Len(sp.errors) - 1) :
                 SubSeq(sp.errors, j, j + 1) = Under(<<PKey(key)>>, own.errors)

\* a union of a primitive and a composite branch, both rejecting an array
\* with a wrong item
C24_Witness ==
  /\ Failed /\ schema = createUnionSchema(<<createStringSchema, createArraySchema(createNumberSchema)>>)
  /\ input = Arr(0, <<Num("1"), Str("x")>>)
  /\ sp.errors = <<Err(<<>>, "Expected string, got array"),
                   Err(<<PIdx(1)>>, "Expected number, got string")>>

\* the schema at the root has children to walk on the input: an object
\* schema on an object, an array schema on an array, a tuple on an array of
\* its length
WalksChildren ==
  \/ schema.kind = "object" /\ IsObjectInput(input)
  \/ schema.kind = "array" /\ IsArray(input)
  \/ schema.kind = "tuple" /\ IsArray(input) /\ Len(input.kids) = Len(schema.subs)

ChildCount == IF schema.kind = "array" THEN Len(input.kids) ELSE Len(schema.subs)
ChildSchema(i) == IF schema.kind = "array" THEN schema.subs[1].v ELSE schema.subs[i].v
ChildValue(i) == IF schema.kind = "object" THEN Get(input, schema.subs[i].k) ELSE input.kids[i].v
ChildPos(i) == IF schema.kind = "object" THEN PKey(schema.subs[i].k) ELSE PIdx(i - 1)

\* the validation of child i without a context, on its own
ChildFast(i) == internalSafeParse(ChildSchema(i), ChildValue(i), NoCtx, <<ChildPos(i)>>, NewState(1))

RECURSIVE ChildCallsUpTo(_)
ChildCallsUpTo(i) == IF i = 0 THEN <<>> ELSE ChildCallsUpTo(i - 1) \o ChildFast(i).st.calls

\* the validation of the input by the schema without a context
FastPass == internalSafeParse(schema, input, NoCtx, <<>>, NewState(1))

FailingChildren == {i \in 1..ChildCount : ChildFast(i).out = "fail"}
FirstFailing == CHOOSE i \in FailingChildren : \A j \in FailingChildren : i <= j

\* C25: a validation without a context stops at the first failure and records
\* nothing: once a field or item of an object, array or tuple schema fails,
\* no schema of a later field or item is evaluated (no callback of a later
\* field is applied), and the errors list is unchanged.
C25_FastPassStopsAtFirstFailure ==
  (SafeParsed /\ WalksChildren /\ FailingChildren # {}
     /\ \A i \in 1..FirstFailing : ChildFast(i).out # "throw") =>
    /\ FastPass.out = "fail"
    /\ FastPass.st.errors = <<>>
    /\ FastPass.st.rewalks = 0
    /\ FastPass.st.calls = ChildCallsUpTo(FirstFailing)
    /\ \A c \in 1..Len(FastPass.st.calls) :
         /\ ~FastPass.st.calls[c].diag
         /\ \E i \in 1..FirstFailing : FastPass.st.calls[c].pos[1] = ChildPos(i)
    /\ SubSeq(sp.calls, 1, Len(FastPass.st.calls)) = FastPass.st.calls

\* the first field fails and the second field holds a transform that would
\* accept its value
C25_Witness ==
  /\ Failed /\ schema.kind = "object" /\ IsObjectInput(input) /\ Len(schema.subs) = 2
  /\ schema.subs[2].v = transform(createStringSchema, "bang")
  /\ ChildFast(1).out = "fail" /\ ChildFast(2).out = "ok"
  /\ FastPass.st.calls = <<>>
  /\ Len(sp.calls) = 1 /\ sp.calls[1].diag

RECURSIVE Depth(_)
\* the nesting depth of a value: 0 for a scalar, one more than its deepest
\* property or item for an object or an array
Depth(v) ==
  IF v.t \notin {"object", "array"} THEN 0
  ELSE LET below == {Depth(v.kids[i].v) : i \in 1..Len(v.kids)}
       IN 1 + (IF below = {} THEN 0 ELSE CHOOSE n \in below : \A m \in below : m <= n)

RECURSIVE SchemaCount(_)
\* the number of schemas in the definition graph of a schema; the tree
\* schema is the lazy schema, the object and its string and array schemas
SchemaCount(s) ==
  IF s.kind = "lazy" THEN (IF s.name = "Tree" THEN 4 ELSE 2)
  ELSE LET RECURSIVE Sum(_)
           Sum(i) == IF i = 0 THEN 0 ELSE Sum(i - 1) + SchemaCount(s.subs[i].v)
       IN 1 + Sum(Len(s.subs))

C27_SuccessRecordsNoError ==
  /\ Succeeded => sp.recorded = <<>> /\ sp.rewalks = 0
  /\ (SafeParsed /\ sp.rewalks > 0) => ~Succeeded
  /\ Parsed /\ pr.status = "returned" => pr.recorded = <<>> /\ pr.rewalks = 0

\* a union accepts by its second branch after a field failed in its first
C27_Witness ==
  /\ Succeeded /\ schema.kind = "union" /\ Len(schema.subs) = 2
  /\ schema.subs[1].v.kind = "object" /\ IsObjectInput(input)
  /\ FastBranch(1).out = "fail" /\ FastBranch(2).out = "ok"

\* a transform callback is applied twice to one position
AppliedTwice(calls) ==
  \E i \in 1..Len(calls), j \in 1..Len(calls) :
    /\ i < j
    /\ calls[i].kind = "transform" /\ calls[j].kind = "transform"
    /\ calls[i].name = calls[j].name /\ calls[i].pos = calls[j].pos

RECURSIVE TransformInSeveralBranches(_)
\* some union of the schema holds transforms in more than one branch
TransformInSeveralBranches(s) ==
  \/ /\ s.kind = "union"
     /\ \E i \in 1..Len(s.subs), j \in 1..Len(s.subs) :
          i # j /\ HasTransform(s.subs[i].v) /\ HasTransform(s.subs[j].v)
  \/ \E i \in 1..Len(s.subs) : TransformInSeveralBranches(s.subs[i].v)

\* C28 as stated: in a safeParse call that succeeds each transform callback
\* is applied at most once to each input position, for every nesting of
\* object, array, tuple, record, union and lazy schemas.
C28_CallbackAppliedOnceOnSuccess == Succeeded => ~AppliedTwice(sp.calls)

\* C28 as amended: in a safeParse call that succeeds each transform callback
\* is applied at most once to each input position, unless it guards that
\* position in several branches of a union; with that exception a callback
\* is applied twice to a position only in a call that fails.
C28_CallbackAppliedOncePerBranch ==
  /\ (Succeeded /\ ~TransformInSeveralBranches(schema)) => ~AppliedTwice(sp.calls)
  /\ (Returned /\ AppliedTwice(sp.calls) /\ ~TransformInSeveralBranches(schema)) => Failed

\* an array of two transformed items is accepted, the callback applied once
\* to each
C28_Witness ==
  /\ Succeeded /\ schema = createArraySchema(transform(createStringSchema, "bang"))
  /\ Len(input.kids) = 2
  /\ Len(sp.calls) = 2 /\ sp.calls[1].pos # sp.calls[2].pos

\* the input is no object a record schema takes
NonObject(v) == TypeOf(v) # "object" \/ v.t = "null" \/ IsArray(v)

RecordIdent == transform(createRecordSchema(createStringSchema), "ident")

\* C29: a transform turns what its inner schema throws into a collected
\* error: a transform over a record schema on a non-object returns a failure
\* with one error at the current path, "Expected object, got <type>", and
\* the callback is not applied.
C29_InnerThrowIsCollected ==
  /\ (SafeParsed /\ schema.kind = "transform") =>
       LET inner == safeParse(schema.subs[1].v, input, 1)
       IN /\ sp.status = "returned"
          /\ inner.status = "threw" =>
               /\ Failed
               /\ sp.errors # <<>>
               /\ sp.errors[Len(sp.errors)] = Err(<<>>, inner.exc)
               /\ \A c \in 1..Len(sp.calls) : sp.calls[c].pos # <<>>
          /\ (schema.subs[1].v.kind = "record" /\ NonObject(input)) =>
               /\ Failed
               /\ sp.errors = <<Err(<<>>, "Expected object, got " \o RuntimeTypeName(input))>>
               /\ sp.calls = <<>>
  /\ (SafeParsed /\ schema = createObjectSchema(<<KV("a", RecordIdent)>>)
        /\ IsObjectInput(input) /\ NonObject(Get(input, "a"))) =>
       /\ Failed
       /\ sp.errors = <<Err(<<PKey("a")>>,
                            "Expected object, got " \o RuntimeTypeName(Get(input, "a")))>>
       /\ sp.calls = <<>>

\* a transformed record as a field, on a number
C29_Witness ==
  /\ Failed /\ schema = createObjectSchema(<<KV("a", RecordIdent)>>)
  /\ IsObjectInput(input) /\ Get(input, "a") = Num("1")
  /\ sp.errors = <<Err(<<PKey("a")>>, "Expected object, got number")>>

====
